---- MODULE Spec2Model ----
(***************************************************************************)
(* Model of src/score.rs: the per-student score Record (a HashMap from     *)
(* Subject to Score), its parquet persistence, the UniversityWeight        *)
(* registry and Record::calc_with_university.                              *)
(*                                                                         *)
(* f64 values are modelled as exact rationals <<n, d>> in lowest terms     *)
(* with d > 0: the arithmetic is the one the code performs, without the    *)
(* rounding of the binary representation.  A Rust panic is the result      *)
(* value Panic(kind); a returned value is Ok(value).                       *)
(***************************************************************************)
EXTENDS Integers, Sequences, FiniteSets, TLC

VARIABLES
    name,    \* Record.name
    scores,  \* Record.scores
    hist,    \* per subject, the arguments of the latest record call (None if none)
    dirs,    \* the student directories data/<name> that exist
    disk,    \* per student name, the content of data/<name>/record.parquet
    saved,   \* per student name, the scores of the record the file was written from
    weight,  \* the UniversityWeight handed to the calculation
    out      \* the latest call: its name, argument and result

vars == <<name, scores, hist, dirs, disk, saved, weight, out>>

(***************************************************************************)
(* Bounds of the model.                                                    *)
(***************************************************************************)
\* number of distinct (standard_score, percentile, rank) inputs per subject
NumSamples == 2
\* English ranks and reference ranks range over 0 .. MaxRank
MaxRank == 4

Names == {"kim", "lee"}
Years == 2021 .. 2026

(***************************************************************************)
(* f64 arithmetic.                                                         *)
(***************************************************************************)
RECURSIVE Gcd(_, _)
Gcd(a, b) == IF b = 0 THEN a ELSE Gcd(b, a % b)

Abs(a) == IF a < 0 THEN -a ELSE a

Rat(n, d) ==
    LET g == Gcd(Abs(n), Abs(d))
        s == IF d < 0 THEN -1 ELSE 1
    IN  <<(s * n) \div g, (s * d) \div g>>

\* `x as f64` for an integer x, and an integer literal such as 2f64
AsF64(x) == <<x, 1>>

\* `x as usize` for an f64 x: truncation toward zero, saturating at 0
AsUsize(x) == IF x[1] < 0 THEN 0 ELSE x[1] \div x[2]

FAdd(a, b) == Rat(a[1] * b[2] + b[1] * a[2], a[2] * b[2])

FSub(a, b) == Rat(a[1] * b[2] - b[1] * a[2], a[2] * b[2])

FMul(a, b) == Rat(a[1] * b[1], a[2] * b[2])

\* division by zero yields an infinity or NaN, written <<sign, 0>>
FDiv(a, b) ==
    IF b[1] = 0
    THEN <<IF a[1] > 0 THEN 1 ELSE IF a[1] < 0 THEN -1 ELSE 0, 0>>
    ELSE Rat(a[1] * b[2], a[2] * b[1])

FGt(a, b) == a[1] * b[2] > b[1] * a[2]

\* f64::min in place of f64::max
FMin(a, b) == IF FGt(a, b) THEN b ELSE a

\* f64::max
FMax(a, b) == IF FGt(b, a) THEN b ELSE a

(***************************************************************************)
(* Results of a call.                                                      *)
(***************************************************************************)
Ok(v) == [kind |-> "Ok", val |-> v]

\* a panic; kind names the condition:
\*   MissingSubject          Option::unwrap() on None
\*   UnsupportedCombination  unimplemented!()
\*   RankOutOfRange          Vec index out of bounds
\*   Unreachable             unreachable!()
\*   PersistenceIOError      Result::unwrap() on an I/O error
Panic(kind) == [kind |-> "Panic", val |-> kind]

\* Err(e) returned through `?`
Err(e) == [kind |-> "Err", val |-> e]

Unit == "()"

\* Option<T>: None is the empty set, Some(v) is {v}
None == {}

Some(v) == {v}

\* unwrap_or_default in place of unwrap
unwrap_or_default(o) ==
    IF o = None THEN Ok([standard_score |-> <<0, 1>>, percentile |-> <<0, 1>>, rank |-> 0])
    ELSE Ok(CHOOSE v \in o : TRUE)

unwrap(o) == IF o = None THEN Panic("MissingSubject") ELSE Ok(CHOOSE v \in o : TRUE)

(***************************************************************************)
(* Score, Subject, Record.                                                 *)
(***************************************************************************)
Score(standard_score, percentile, rank) ==
    [standard_score |-> standard_score, percentile |-> percentile, rank |-> rank]

Subject == {"Korean", "Math", "English", "Chemistry", "EarthScience"}

\* HashMap<Subject, Score> as a set of (key, value) entries
HashMap_get(m, k) == {e.score : e \in {x \in m : x.subject = k}}

HashMap_insert(m, k, v) == {e \in m : e.subject # k} \cup {[subject |-> k, score |-> v]}

Record_new(n) == [name |-> n, scores |-> {}]

\* record with the two f64 fields of the Score exchanged
Record_record_swapped(sc, subject, standard_score, percentile, rank) ==
    HashMap_insert(sc, subject, Score(percentile, standard_score, rank))

Record_record(sc, subject, standard_score, percentile, rank) ==
    HashMap_insert(sc, subject, Score(standard_score, percentile, rank))

korean(sc) == unwrap(HashMap_get(sc, "Korean"))

math(sc) == unwrap(HashMap_get(sc, "Math"))

english(sc) == unwrap(HashMap_get(sc, "English"))

chemistry(sc) == unwrap(HashMap_get(sc, "Chemistry"))

earth_science(sc) == unwrap(HashMap_get(sc, "EarthScience"))

standard_score(sc, subject) ==
    LET r == unwrap(HashMap_get(sc, subject))
    IN  IF r.kind = "Ok" THEN Ok(r.val.standard_score) ELSE r

percentile(sc, subject) ==
    LET r == unwrap(HashMap_get(sc, subject))
    IN  IF r.kind = "Ok" THEN Ok(r.val.percentile) ELSE r

rank(sc, subject) ==
    LET r == unwrap(HashMap_get(sc, subject))
    IN  IF r.kind = "Ok" THEN Ok(r.val.rank) ELSE r

(***************************************************************************)
(* Persistence.  A DataFrame is a function from column name to a column of *)
(* three f64; the parquet file of a student holds the DataFrame written.   *)
(***************************************************************************)
\* a column that holds the standard score twice
Column_dup(sc) == <<sc.standard_score, sc.standard_score, AsF64(sc.rank)>>

Column(sc) == <<sc.standard_score, sc.percentile, AsF64(sc.rank)>>

to_dataframe(sc) ==
    IF korean(sc).kind = "Panic" THEN korean(sc)
    ELSE IF math(sc).kind = "Panic" THEN math(sc)
    ELSE IF english(sc).kind = "Panic" THEN english(sc)
    ELSE IF chemistry(sc).kind = "Panic" THEN chemistry(sc)
    ELSE IF earth_science(sc).kind = "Panic" THEN earth_science(sc)
    ELSE Ok([Korean       |-> Column(korean(sc).val),
             Math         |-> Column(math(sc).val),
             English      |-> <<AsF64(0), AsF64(0), AsF64(english(sc).val.rank)>>,
             Chemistry    |-> Column(chemistry(sc).val),
             EarthScience |-> Column(earth_science(sc).val)])

\* the record read_parquet builds from a DataFrame (columns are 0-indexed
\* in the source, sequences are 1-indexed here)
read_record(df) ==
    LET r0 == Record_new("").scores
        r1 == Record_record(r0, "Korean", df.Korean[1], df.Korean[2], AsUsize(df.Korean[3]))
        r2 == Record_record(r1, "Math", df.Math[1], df.Math[2], AsUsize(df.Math[3]))
        r3 == Record_record(r2, "English", AsF64(0), AsF64(0), AsUsize(df.English[3]))
        r4 == Record_record(r3, "Chemistry", df.Chemistry[1], df.Chemistry[2],
                            AsUsize(df.Chemistry[3]))
        r5 == Record_record(r4, "EarthScience", df.EarthScience[1], df.EarthScience[2],
                            AsUsize(df.EarthScience[3]))
    IN  r5

read_parquet(files, n) ==
    IF files[n] = None
    THEN Panic("PersistenceIOError")
    ELSE Ok(read_record(CHOOSE df \in files[n] : TRUE))

(***************************************************************************)
(* University and the UniversityWeight registry.                           *)
(***************************************************************************)
University ==
    {"KYUNGHEE", "DONGGUK", "SEOULSCITECH", "KWANGWOON", "INHA", "ERICA", "SEJONG",
     "KOOKMIN", "AJU", "SOONGSIL", "KONKUK", "CATHOLIC", "CHUNGANG", "SEOUL", "SOGANG"}

UnivIndex(u) ==
    CASE u = "KYUNGHEE" -> 0 [] u = "DONGGUK" -> 1 [] u = "SEOULSCITECH" -> 2
      [] u = "KWANGWOON" -> 3 [] u = "INHA" -> 4 [] u = "ERICA" -> 5
      [] u = "SEJONG" -> 6 [] u = "KOOKMIN" -> 7 [] u = "AJU" -> 8
      [] u = "SOONGSIL" -> 9 [] u = "KONKUK" -> 10 [] u = "CATHOLIC" -> 11
      [] u = "CHUNGANG" -> 12 [] u = "SEOUL" -> 13 [] u = "SOGANG" -> 14

\* The constants <UNIV>_<year>_WEIGHT, _SCI_REQ, _ENG_REQ and _ENG of the
\* module university_weight.  Each pair has values of its own: the Korean
\* and science coefficients identify the pair.
WEIGHT(u, y) ==
    <<20 + (y - 2020),
      30 + 5 * (UnivIndex(u) % 2),
      IF (UnivIndex(u) + y) % 3 = 0 THEN 0 ELSE 20,
      25 + UnivIndex(u)>>

SCI_REQ(u, y) == 1 + ((UnivIndex(u) + y) % 2)

ENG_REQ(u, y) == 1 + (UnivIndex(u) % 2)

ENG(u, y) ==
    [i \in 1 .. 10 |-> IF i = 1 THEN 0 ELSE 100 - (i - 2) * (1 + ((UnivIndex(u) + y) % 3))]

UniversityWeight(k, m, e, s, sci_req, eng_req, eng_table) ==
    [korean |-> k, math |-> m, english |-> e, science |-> s,
     science_required |-> sci_req, english_required |-> eng_req,
     english_table |-> eng_table]

\* the macro with english_required taken from the _SCI_REQ constant
make_university_weight_req(u, y) ==
    LET w == WEIGHT(u, y)
    IN  UniversityWeight(AsF64(w[1]), AsF64(w[2]), AsF64(w[3]), AsF64(w[4]),
                         SCI_REQ(u, y), SCI_REQ(u, y),
                         [i \in 1 .. Len(ENG(u, y)) |-> AsF64(ENG(u, y)[i])])

make_university_weight(u, y) ==
    LET w == WEIGHT(u, y)
    IN  UniversityWeight(AsF64(w[1]), AsF64(w[2]), AsF64(w[3]), AsF64(w[4]),
                         SCI_REQ(u, y), ENG_REQ(u, y),
                         [i \in 1 .. Len(ENG(u, y)) |-> AsF64(ENG(u, y)[i])])

\* the (university, year) pairs the match of load has an arm for
Catalog ==
    ({"KYUNGHEE", "DONGGUK", "SEOULSCITECH", "KWANGWOON", "INHA", "ERICA", "SEJONG",
      "KOOKMIN", "AJU", "SOONGSIL", "CATHOLIC"} \X {2022, 2023})
    \cup (University \X {2024})
    \cup ({"SOGANG", "CHUNGANG", "KYUNGHEE", "SEOUL", "KONKUK", "DONGGUK"} \X {2025})

load(univ, year) ==
    CASE univ = "KYUNGHEE" /\ year = 2022 -> Ok(make_university_weight("KYUNGHEE", 2022))
      [] univ = "DONGGUK" /\ year = 2022 -> Ok(make_university_weight("DONGGUK", 2022))
      [] univ = "SEOULSCITECH" /\ year = 2022 -> Ok(make_university_weight("SEOULSCITECH", 2022))
      [] univ = "KWANGWOON" /\ year = 2022 -> Ok(make_university_weight("KWANGWOON", 2022))
      [] univ = "INHA" /\ year = 2022 -> Ok(make_university_weight("INHA", 2022))
      [] univ = "ERICA" /\ year = 2022 -> Ok(make_university_weight("ERICA", 2022))
      [] univ = "SEJONG" /\ year = 2022 -> Ok(make_university_weight("SEJONG", 2022))
      [] univ = "KOOKMIN" /\ year = 2022 -> Ok(make_university_weight("KOOKMIN", 2022))
      [] univ = "AJU" /\ year = 2022 -> Ok(make_university_weight("AJU", 2022))
      [] univ = "SOONGSIL" /\ year = 2022 -> Ok(make_university_weight("SOONGSIL", 2022))
      [] univ = "CATHOLIC" /\ year = 2022 -> Ok(make_university_weight("CATHOLIC", 2022))
      [] univ = "KYUNGHEE" /\ year = 2023 -> Ok(make_university_weight("KYUNGHEE", 2023))
      [] univ = "DONGGUK" /\ year = 2023 -> Ok(make_university_weight("DONGGUK", 2023))
      [] univ = "SEOULSCITECH" /\ year = 2023 -> Ok(make_university_weight("SEOULSCITECH", 2023))
      [] univ = "KWANGWOON" /\ year = 2023 -> Ok(make_university_weight("KWANGWOON", 2023))
      [] univ = "INHA" /\ year = 2023 -> Ok(make_university_weight("INHA", 2023))
      [] univ = "ERICA" /\ year = 2023 -> Ok(make_university_weight("ERICA", 2023))
      [] univ = "SEJONG" /\ year = 2023 -> Ok(make_university_weight("SEJONG", 2023))
      [] univ = "KOOKMIN" /\ year = 2023 -> Ok(make_university_weight("KOOKMIN", 2023))
      [] univ = "AJU" /\ year = 2023 -> Ok(make_university_weight("AJU", 2023))
      [] univ = "SOONGSIL" /\ year = 2023 -> Ok(make_university_weight("SOONGSIL", 2023))
      [] univ = "CATHOLIC" /\ year = 2023 -> Ok(make_university_weight("CATHOLIC", 2023))
      [] univ = "SOGANG" /\ year = 2024 -> Ok(make_university_weight("SOGANG", 2024))
      [] univ = "CHUNGANG" /\ year = 2024 -> Ok(make_university_weight("CHUNGANG", 2024))
      [] univ = "KYUNGHEE" /\ year = 2024 -> Ok(make_university_weight("KYUNGHEE", 2024))
      [] univ = "SEOUL" /\ year = 2024 -> Ok(make_university_weight("SEOUL", 2024))
      [] univ = "DONGGUK" /\ year = 2024 -> Ok(make_university_weight("DONGGUK", 2024))
      [] univ = "SEOULSCITECH" /\ year = 2024 -> Ok(make_university_weight("SEOULSCITECH", 2024))
      [] univ = "KWANGWOON" /\ year = 2024 -> Ok(make_university_weight("KWANGWOON", 2024))
      [] univ = "INHA" /\ year = 2024 -> Ok(make_university_weight("INHA", 2024))
      [] univ = "ERICA" /\ year = 2024 -> Ok(make_university_weight("ERICA", 2024))
      [] univ = "SEJONG" /\ year = 2024 -> Ok(make_university_weight("SEJONG", 2024))
      [] univ = "KOOKMIN" /\ year = 2024 -> Ok(make_university_weight("KOOKMIN", 2024))
      [] univ = "AJU" /\ year = 2024 -> Ok(make_university_weight("AJU", 2024))
      [] univ = "SOONGSIL" /\ year = 2024 -> Ok(make_university_weight("SOONGSIL", 2024))
      [] univ = "KONKUK" /\ year = 2024 -> Ok(make_university_weight("KONKUK", 2024))
      [] univ = "CATHOLIC" /\ year = 2024 -> Ok(make_university_weight("CATHOLIC", 2024))
      [] univ = "SOGANG" /\ year = 2025 -> Ok(make_university_weight("SOGANG", 2025))
      [] univ = "CHUNGANG" /\ year = 2025 -> Ok(make_university_weight("CHUNGANG", 2025))
      [] univ = "KYUNGHEE" /\ year = 2025 -> Ok(make_university_weight("KYUNGHEE", 2025))
      [] univ = "SEOUL" /\ year = 2025 -> Ok(make_university_weight("SEOUL", 2025))
      [] univ = "KONKUK" /\ year = 2025 -> Ok(make_university_weight("KONKUK", 2025))
      [] univ = "DONGGUK" /\ year = 2025 -> Ok(make_university_weight("DONGGUK", 2025))
      [] OTHER -> Panic("UnsupportedCombination")

(***************************************************************************)
(* Record::calc_with_university.                                           *)
(***************************************************************************)
\* indexing that clamps the index to the last element
Index_clamped(v, i) == IF i < Len(v) THEN Ok(v[i + 1]) ELSE Ok(v[Len(v)])

\* Vec<f64> indexing: index i of the vector is element i + 1 of the sequence
Index(v, i) == IF i < Len(v) THEN Ok(v[i + 1]) ELSE Panic("RankOutOfRange")

\* best-of-two that reads the second elective only when it is present
science_cand_lazy(sc, science_required) ==
    CASE science_required = 1 ->
            IF chemistry(sc).kind = "Panic" THEN chemistry(sc)
            ELSE IF earth_science(sc).kind = "Panic"
                 THEN Ok(FMul(chemistry(sc).val.standard_score, AsF64(2)))
            ELSE Ok(FMul(FMax(chemistry(sc).val.standard_score,
                              earth_science(sc).val.standard_score), AsF64(2)))
      [] science_required = 2 ->
            IF chemistry(sc).kind = "Panic" THEN chemistry(sc)
            ELSE IF earth_science(sc).kind = "Panic" THEN earth_science(sc)
            ELSE Ok(FAdd(chemistry(sc).val.standard_score,
                         earth_science(sc).val.standard_score))
      [] OTHER -> Panic("Unreachable")

\* the match on science_required
science_cand(sc, science_required) ==
    CASE science_required = 1 ->
            IF chemistry(sc).kind = "Panic" THEN chemistry(sc)
            ELSE IF earth_science(sc).kind = "Panic" THEN earth_science(sc)
            ELSE Ok(FMul(FMax(chemistry(sc).val.standard_score,
                              earth_science(sc).val.standard_score), AsF64(2)))
      [] science_required = 2 ->
            IF chemistry(sc).kind = "Panic" THEN chemistry(sc)
            ELSE IF earth_science(sc).kind = "Panic" THEN earth_science(sc)
            ELSE Ok(FAdd(chemistry(sc).val.standard_score,
                         earth_science(sc).val.standard_score))
      [] OTHER -> Panic("Unreachable")

\* the test weight_eng >= 0 in place of weight_eng > 0
adjust_ge(total, eng_score, eng_default_score, weight_eng, weight_sum) ==
    IF ~FGt(AsF64(0), weight_eng)
    THEN FAdd(total, FDiv(FMul(FSub(eng_score, eng_default_score), weight_eng), weight_sum))
    ELSE FAdd(total, FDiv(FSub(eng_score, eng_default_score), AsF64(4)))

\* the fallback divisor 2 in place of 4
adjust_half(total, eng_score, eng_default_score, weight_eng, weight_sum) ==
    IF FGt(weight_eng, AsF64(0))
    THEN FAdd(total, FDiv(FMul(FSub(eng_score, eng_default_score), weight_eng), weight_sum))
    ELSE FAdd(total, FDiv(FSub(eng_score, eng_default_score), AsF64(2)))

\* the weighted branch without the factor weight_eng
adjust_unweighted(total, eng_score, eng_default_score, weight_eng, weight_sum) ==
    IF FGt(weight_eng, AsF64(0))
    THEN FAdd(total, FDiv(FSub(eng_score, eng_default_score), weight_sum))
    ELSE FAdd(total, FDiv(FSub(eng_score, eng_default_score), AsF64(4)))

\* the final expression: the English adjustment added to total
adjust(total, eng_score, eng_default_score, weight_eng, weight_sum) ==
    IF FGt(weight_eng, AsF64(0))
    THEN FAdd(total, FDiv(FMul(FSub(eng_score, eng_default_score), weight_eng), weight_sum))
    ELSE FAdd(total, FDiv(FSub(eng_score, eng_default_score), AsF64(4)))

\* the body of calc_with_university once the weight is loaded; the result
\* records the values of the local variables along with the value returned
calc(sc, w) ==
    LET weight_sum_except_eng == FAdd(FAdd(w.korean, w.math), w.science)
        weight_eng == w.english
        weight_sum == FAdd(weight_sum_except_eng, weight_eng)
        cand == science_cand(sc, w.science_required)
        eng_default == Index(w.english_table, w.english_required)
    IN  IF korean(sc).kind = "Panic" THEN korean(sc)
        ELSE IF math(sc).kind = "Panic" THEN math(sc)
        ELSE IF cand.kind = "Panic" THEN cand
        ELSE IF english(sc).kind = "Panic" THEN english(sc)
        ELSE IF eng_default.kind = "Panic" THEN eng_default
        ELSE IF Index(w.english_table, english(sc).val.rank).kind = "Panic"
             THEN Index(w.english_table, english(sc).val.rank)
        ELSE LET k == FDiv(FMul(korean(sc).val.standard_score, w.korean),
                           weight_sum_except_eng)
                 m == FDiv(FMul(math(sc).val.standard_score, w.math),
                           weight_sum_except_eng)
                 science == FDiv(FMul(cand.val, w.science), weight_sum_except_eng)
                 total == FMul(FAdd(FAdd(k, m), science), AsF64(3))
                 eng_score == Index(w.english_table, english(sc).val.rank).val
             IN  Ok([korean |-> k, math |-> m, science_cand |-> cand.val,
                     science |-> science, total |-> total,
                     eng_default_score |-> eng_default.val, eng_score |-> eng_score,
                     ret |-> adjust(total, eng_score, eng_default.val, weight_eng,
                                    weight_sum)])

calc_with_university(sc, university, year) ==
    IF load(university, year).kind = "Panic"
    THEN load(university, year)
    ELSE calc(sc, load(university, year).val)

(***************************************************************************)
(* Inputs.                                                                 *)
(***************************************************************************)
StdBase(s) ==
    CASE s = "Korean" -> 130 [] s = "Math" -> 125 [] s = "English" -> 90
      [] s = "Chemistry" -> 68 [] s = "EarthScience" -> 65

StdStep(s) == IF s \in {"EarthScience", "English"} THEN 3 ELSE -3

\* the i-th input for subject s; Chemistry and EarthScience cross over
\* (68, 65 against 65, 68) so that either elective can be the larger one
Sample(s, i) ==
    Score(AsF64(StdBase(s) + StdStep(s) * (i - 1)),
          Rat(200 - i, 2),
          IF s = "English" THEN i + 1 ELSE i)

Inputs(s) == {Sample(s, i) : i \in 1 .. NumSamples}

Entry(s, v) == [subject |-> s, score |-> v]

EntryChoices(s) == {{}} \cup {{Entry(s, v)} : v \in Inputs(s)}

\* every record the record calls can build from the inputs
Records ==
    {k \cup m \cup e \cup c \cup es :
        k \in EntryChoices("Korean"), m \in EntryChoices("Math"),
        e \in EntryChoices("English"), c \in EntryChoices("Chemistry"),
        es \in EntryChoices("EarthScience")}

\* the same, with the English rank ranging over 0 .. MaxRank
EnglishRankChoices ==
    {{}} \cup {{Entry("English", Score(AsF64(90), Rat(199, 2), r))} : r \in 0 .. MaxRank}

CalcRecords ==
    {k \cup m \cup e \cup c \cup es :
        k \in EntryChoices("Korean"), m \in EntryChoices("Math"),
        e \in EnglishRankChoices, c \in EntryChoices("Chemistry"),
        es \in EntryChoices("EarthScience")}

\* the English rank table of the worked example: [_, 100, 97, 94]
ExampleTable == <<AsF64(0), AsF64(100), AsF64(97), AsF64(94)>>

WeightTables ==
    {UniversityWeight(AsF64(k), AsF64(m), AsF64(e), AsF64(s), sr, er, ExampleTable) :
        k \in {30, 20}, m \in {30, 40}, e \in {0, 20}, s \in {40, 30},
        sr \in {1, 2}, er \in 0 .. MaxRank}

Call(op, arg, res, prev) == [op |-> op, arg |-> arg, res |-> res, prev |-> prev]

NoHist == [s \in Subject |-> None]

NoDisk == [n \in Names |-> None]

(***************************************************************************)
(* Actions of the in-memory record.                                        *)
(***************************************************************************)
Init ==
    /\ name \in Names
    /\ scores = Record_new(name).scores
    /\ hist = NoHist
    /\ dirs = {}
    /\ disk = NoDisk
    /\ saved = NoDisk
    /\ weight = None
    /\ out = Call("new", name, Ok(Unit), None)

New ==
    \E n \in Names :
        /\ name' = Record_new(n).name
        /\ scores' = Record_new(n).scores
        /\ hist' = NoHist
        /\ out' = Call("new", n, Ok(Unit), None)
        /\ UNCHANGED <<dirs, disk, saved, weight>>

\* prev is the entry the insertion replaced, which the code discards
Record ==
    \E subject \in Subject :
        \E v \in Inputs(subject) :
            /\ scores' = Record_record(scores, subject, v.standard_score, v.percentile, v.rank)
            /\ hist' = [hist EXCEPT ![subject] = Some(v)]
            /\ out' = Call("record", subject, Ok(Unit), HashMap_get(scores, subject))
            /\ UNCHANGED <<name, dirs, disk, saved, weight>>

GetName ==
    /\ out' = Call("name", Unit, Ok(name), None)
    /\ UNCHANGED <<name, scores, hist, dirs, disk, saved, weight>>

Korean ==
    /\ out' = Call("korean", "Korean", korean(scores), None)
    /\ UNCHANGED <<name, scores, hist, dirs, disk, saved, weight>>

Math ==
    /\ out' = Call("math", "Math", math(scores), None)
    /\ UNCHANGED <<name, scores, hist, dirs, disk, saved, weight>>

English ==
    /\ out' = Call("english", "English", english(scores), None)
    /\ UNCHANGED <<name, scores, hist, dirs, disk, saved, weight>>

Chemistry ==
    /\ out' = Call("chemistry", "Chemistry", chemistry(scores), None)
    /\ UNCHANGED <<name, scores, hist, dirs, disk, saved, weight>>

EarthScience ==
    /\ out' = Call("earth_science", "EarthScience", earth_science(scores), None)
    /\ UNCHANGED <<name, scores, hist, dirs, disk, saved, weight>>

StandardScore ==
    \E subject \in Subject :
        /\ out' = Call("standard_score", subject, standard_score(scores, subject), None)
        /\ UNCHANGED <<name, scores, hist, dirs, disk, saved, weight>>

Percentile ==
    \E subject \in Subject :
        /\ out' = Call("percentile", subject, percentile(scores, subject), None)
        /\ UNCHANGED <<name, scores, hist, dirs, disk, saved, weight>>

Rank ==
    \E subject \in Subject :
        /\ out' = Call("rank", subject, rank(scores, subject), None)
        /\ UNCHANGED <<name, scores, hist, dirs, disk, saved, weight>>

Next ==
    \/ New
    \/ Record
    \/ GetName
    \/ Korean
    \/ Math
    \/ English
    \/ Chemistry
    \/ EarthScience
    \/ StandardScore
    \/ Percentile
    \/ Rank

Spec == Init /\ [][Next]_vars

(***************************************************************************)
(* The registry, and the calculation for a university and a year, as       *)
(* functions of a record and a (university, year) pair.                    *)
(***************************************************************************)
InitUniv ==
    /\ name \in Names
    /\ scores \in Records
    /\ hist = [s \in Subject |-> HashMap_get(scores, s)]
    /\ dirs = {}
    /\ disk = NoDisk
    /\ saved = NoDisk
    /\ weight = None
    /\ out = Call("new", name, Ok(Unit), None)

Load ==
    \E univ \in University, year \in Years :
        /\ out.op = "new"
        /\ out' = Call("load", <<univ, year>>, load(univ, year), None)
        /\ UNCHANGED <<name, scores, hist, dirs, disk, saved, weight>>

CalcWithUniversity ==
    \E university \in University, year \in Years :
        /\ out.op = "new"
        /\ out' = Call("calc_with_university", <<university, year>>,
                       calc_with_university(scores, university, year), None)
        /\ UNCHANGED <<name, scores, hist, dirs, disk, saved, weight>>

NextUniv ==
    \/ Load
    \/ CalcWithUniversity

SpecUniv == InitUniv /\ [][NextUniv]_vars

(***************************************************************************)
(* The calculation as a function of a record and a weight table.           *)
(***************************************************************************)
InitCalc ==
    /\ name = "kim"
    /\ scores \in CalcRecords
    /\ hist = [s \in Subject |-> HashMap_get(scores, s)]
    /\ dirs = {}
    /\ disk = NoDisk
    /\ saved = NoDisk
    /\ weight \in {Some(w) : w \in WeightTables}
    /\ out = Call("new", name, Ok(Unit), None)

Calculate ==
    /\ out.op = "new"
    /\ \E w \in weight :
        out' = Call("calc", w, calc(scores, w), None)
    /\ UNCHANGED <<name, scores, hist, dirs, disk, saved, weight>>

NextCalc == Calculate

SpecCalc == InitCalc /\ [][NextCalc]_vars

(***************************************************************************)
(* Persistence of a record.                                                *)
(***************************************************************************)
InitPersist ==
    /\ name \in Names
    /\ scores \in Records
    /\ hist = [s \in Subject |-> HashMap_get(scores, s)]
    /\ dirs = {}
    /\ disk = NoDisk
    /\ saved = NoDisk
    /\ weight = None
    /\ out = Call("new", name, Ok(Unit), None)

\* write_parquet: to_dataframe panics on a missing subject; create_dir and
\* the write can each fail, and a failed write may leave no readable file
WriteParquet ==
    /\ IF to_dataframe(scores).kind = "Panic"
       THEN /\ out' = Call("write_parquet", name, to_dataframe(scores), None)
            /\ UNCHANGED <<dirs, disk, saved>>
       ELSE \/ /\ name \notin dirs
               /\ out' = Call("write_parquet", name, Err("create_dir"), None)
               /\ UNCHANGED <<dirs, disk, saved>>
            \/ /\ dirs' = dirs \cup {name}
               /\ \E left \in {disk[name], None} :
                    /\ disk' = [disk EXCEPT ![name] = left]
                    /\ saved' = [saved EXCEPT ![name] = IF left = None THEN None ELSE @]
               /\ out' = Call("write_parquet", name, Err("write"), None)
            \/ /\ dirs' = dirs \cup {name}
               /\ disk' = [disk EXCEPT ![name] = Some(to_dataframe(scores).val)]
               /\ saved' = [saved EXCEPT ![name] = Some(scores)]
               /\ out' = Call("write_parquet", name, Ok(Unit), None)
    /\ UNCHANGED <<name, scores, hist, weight>>

ReadParquet ==
    \E n \in Names :
        /\ out' = Call("read_parquet", n, read_parquet(disk, n), None)
        /\ IF read_parquet(disk, n).kind = "Ok"
           THEN /\ name' = Record_new(n).name
                /\ scores' = read_parquet(disk, n).val
                /\ hist' = [s \in Subject |-> HashMap_get(read_parquet(disk, n).val, s)]
           ELSE UNCHANGED <<name, scores, hist>>
        /\ UNCHANGED <<dirs, disk, saved, weight>>

NextPersist ==
    \/ WriteParquet
    \/ ReadParquet

SpecPersist == InitPersist /\ [][NextPersist]_vars

(***************************************************************************)
(* Properties.                                                             *)
(***************************************************************************)
EntryOps == {"korean", "math", "english", "chemistry", "earth_science"}

FieldOps == {"standard_score", "percentile", "rank"}

Latest(s) == CHOOSE v \in hist[s] : TRUE

StdOf(sc, s) == {v.standard_score : v \in HashMap_get(sc, s)}

RankOf(sc, s) == {v.rank : v \in HashMap_get(sc, s)}

Complete(sc) == \A s \in Subject : HashMap_get(sc, s) # None

C1_Stored ==
    \A s \in Subject :
        /\ Cardinality({e \in scores : e.subject = s}) <= 1
        /\ hist[s] # None => HashMap_get(scores, s) = hist[s]

C1_Returned ==
    (out.op \in EntryOps \cup FieldOps /\ hist[out.arg] # None) =>
        /\ out.res.kind = "Ok"
        /\ out.op \in EntryOps => out.res.val = Latest(out.arg)
        /\ out.op = "standard_score" => out.res.val = Latest(out.arg).standard_score
        /\ out.op = "percentile" => out.res.val = Latest(out.arg).percentile
        /\ out.op = "rank" => out.res.val = Latest(out.arg).rank

C1_Frame ==
    out'.op = "record" =>
        /\ name' = name
        /\ \A t \in Subject \ {out'.arg} : HashMap_get(scores', t) = HashMap_get(scores, t)

\* C1: a subject recorded at least once holds exactly one entry, the triple
\* of its latest record call, and every accessor returns that triple (or its
\* field); a record call leaves the other subjects' entries and the name alone.
C1_LastWriteWins == [](C1_Stored /\ C1_Returned) /\ [][C1_Frame]_vars

\* a record call has replaced an entry by a different one, and the map holds the new one
C1_Witness ==
    /\ out.op = "record"
    /\ out.prev # None
    /\ out.prev # hist[out.arg]
    /\ HashMap_get(scores, out.arg) = hist[out.arg]
    /\ Cardinality(scores) > 1

\* C4: every accessor called for a subject that was never recorded panics
\* with MissingSubject instead of returning a value.
C4_MissingSubject ==
    (out.op \in EntryOps \cup FieldOps /\ hist[out.arg] = None) =>
        /\ out.res.kind = "Panic"
        /\ out.res.val = "MissingSubject"

\* an accessor has panicked on a record that holds other subjects
C4_Witness ==
    /\ out.op = "percentile"
    /\ out.arg = "English"
    /\ hist["English"] = None
    /\ hist["Korean"] # None
    /\ out.res.kind = "Panic"

\* C3: load returns, for a pair of the catalog, the table made of that
\* pair's constants, and panics with UnsupportedCombination for any other pair.
C3_Resolve ==
    out.op = "load" =>
        LET u == out.arg[1]
            y == out.arg[2]
        IN  IF out.arg \in Catalog
            THEN /\ out.res.kind = "Ok"
                 /\ out.res.val.korean = AsF64(WEIGHT(u, y)[1])
                 /\ out.res.val.math = AsF64(WEIGHT(u, y)[2])
                 /\ out.res.val.english = AsF64(WEIGHT(u, y)[3])
                 /\ out.res.val.science = AsF64(WEIGHT(u, y)[4])
                 /\ out.res.val.science_required = SCI_REQ(u, y)
                 /\ out.res.val.english_required = ENG_REQ(u, y)
                 /\ Len(out.res.val.english_table) = Len(ENG(u, y))
                 /\ \A i \in 1 .. Len(ENG(u, y)) :
                        out.res.val.english_table[i] = AsF64(ENG(u, y)[i])
                 /\ DOMAIN out.res.val =
                        {"korean", "math", "english", "science", "science_required",
                         "english_required", "english_table"}
            ELSE /\ out.res.kind = "Panic"
                 /\ out.res.val = "UnsupportedCombination"

\* load has returned the table of a pair of the catalog
C3_Witness ==
    /\ out.op = "load"
    /\ out.arg = <<"KONKUK", 2025>>
    /\ out.res.kind = "Ok"

C10_Fails ==
    (out.op = "calc" /\ ~Complete(scores)) =>
        /\ out.res.kind = "Panic"
        /\ out.res.val = "MissingSubject"

C10_Frame ==
    out'.op = "calc" => (scores' = scores /\ name' = name)

ExampleWeight ==
    UniversityWeight(AsF64(30), AsF64(30), AsF64(0), AsF64(40), 2, 1, ExampleTable)

ExampleRecord ==
    /\ StdOf(scores, "Korean") = {AsF64(130)}
    /\ StdOf(scores, "Math") = {AsF64(125)}
    /\ StdOf(scores, "Chemistry") = {AsF64(68)}
    /\ StdOf(scores, "EarthScience") = {AsF64(65)}
    /\ RankOf(scores, "English") = {2}

\* C2: on the worked example the calculation gives total 389.1, adds -0.75
\* and returns 388.35.
C2_Example ==
    (out.op = "calc" /\ out.arg = ExampleWeight /\ ExampleRecord) =>
        /\ out.res.kind = "Ok"
        /\ out.res.val.korean = AsF64(39)
        /\ out.res.val.math = Rat(75, 2)
        /\ out.res.val.science_cand = AsF64(133)
        /\ out.res.val.science = Rat(532, 10)
        /\ out.res.val.total = Rat(3891, 10)
        /\ FSub(out.res.val.ret, out.res.val.total) = Rat(-75, 100)
        /\ out.res.val.ret = Rat(38835, 100)

\* the calculation has run on the worked example
C2_Witness ==
    /\ out.op = "calc"
    /\ out.arg = ExampleWeight
    /\ ExampleRecord
    /\ out.res.kind = "Ok"

\* C5: the science candidate is twice the larger elective when one elective
\* is required and the sum of the two when both are, and the science
\* contribution is the candidate times the science weight over the sum of
\* the Korean, Math and science weights.
C5_Science ==
    (out.op = "calc" /\ out.res.kind = "Ok") =>
        LET chem == CHOOSE x \in StdOf(scores, "Chemistry") : TRUE
            earth == CHOOSE x \in StdOf(scores, "EarthScience") : TRUE
            w == out.arg
            cand == out.res.val.science_cand
        IN  /\ w.science_required = 1 =>
                  cand = IF FGt(chem, earth) THEN FMul(AsF64(2), chem)
                         ELSE FMul(AsF64(2), earth)
            /\ w.science_required = 2 => cand = FAdd(chem, earth)
            /\ (chem = AsF64(68) /\ earth = AsF64(65)) =>
                  cand = IF w.science_required = 1 THEN AsF64(136) ELSE AsF64(133)
            /\ out.res.val.science =
                  FDiv(FMul(cand, w.science), FAdd(FAdd(w.korean, w.math), w.science))

\* best-of-two with EarthScience the larger elective
C5_Witness ==
    /\ out.op = "calc"
    /\ out.res.kind = "Ok"
    /\ out.arg.science_required = 1
    /\ StdOf(scores, "Chemistry") = {AsF64(65)}
    /\ StdOf(scores, "EarthScience") = {AsF64(68)}
    /\ out.res.val.science_cand = AsF64(136)

Adjustment(r) == FSub(r.val.ret, r.val.total)

\* C6: with a zero English weight the calculation adds a quarter of the
\* difference between the table's score at the student's rank and at the
\* reference rank, whatever the other three weights are.
C6_ZeroWeight ==
    (out.op = "calc" /\ out.res.kind = "Ok" /\ out.arg.english = AsF64(0)) =>
        LET w == out.arg
            r == CHOOSE x \in RankOf(scores, "English") : TRUE
        IN  /\ Adjustment(out.res) =
                  FDiv(FSub(w.english_table[r + 1], w.english_table[w.english_required + 1]),
                       AsF64(4))
            /\ \A w2 \in WeightTables :
                  (/\ w2.english = AsF64(0)
                   /\ w2.english_required = w.english_required
                   /\ w2.english_table = w.english_table) =>
                      /\ calc(scores, w2).kind = "Ok"
                      /\ Adjustment(calc(scores, w2)) = Adjustment(out.res)

\* zero English weight, a student rank other than the reference rank
C6_Witness ==
    /\ out.op = "calc"
    /\ out.res.kind = "Ok"
    /\ out.arg.english = AsF64(0)
    /\ RankOf(scores, "English") = {3}
    /\ out.arg.english_required = 1
    /\ Adjustment(out.res) = Rat(-6, 4)

\* C7: with every subject recorded, a student rank or a reference rank that
\* is not an index of the English table makes the calculation panic with
\* RankOutOfRange.
C7_RankOutOfRange ==
    (/\ out.op = "calc"
     /\ Complete(scores)
     /\ \/ \E r \in RankOf(scores, "English") : r >= Len(out.arg.english_table)
        \/ out.arg.english_required >= Len(out.arg.english_table)) =>
        /\ out.res.kind = "Panic"
        /\ out.res.val = "RankOutOfRange"

\* the student's rank is the table's length, the reference rank is in range
C7_Witness ==
    /\ out.op = "calc"
    /\ Complete(scores)
    /\ RankOf(scores, "English") = {Len(out.arg.english_table)}
    /\ out.arg.english_required = 1
    /\ out.res.kind = "Panic"

\* C9: with a positive English weight the calculation returns total plus
\* the table difference times the English weight over the sum of the four
\* weights, total being three times the weighted sum of the Korean, Math and
\* science-candidate scores over the sum of the three weights; in either
\* branch a student at the reference rank gets total.
C9_Weighted ==
    (out.op = "calc" /\ out.res.kind = "Ok") =>
        LET w == out.arg
            v == out.res.val
            r == CHOOSE x \in RankOf(scores, "English") : TRUE
            kor == CHOOSE x \in StdOf(scores, "Korean") : TRUE
            mat == CHOOSE x \in StdOf(scores, "Math") : TRUE
            sum3 == FAdd(FAdd(w.korean, w.math), w.science)
            sum4 == FAdd(sum3, w.english)
            diff == FSub(w.english_table[r + 1], w.english_table[w.english_required + 1])
        IN  /\ v.total =
                  FDiv(FMul(AsF64(3),
                            FAdd(FAdd(FMul(kor, w.korean), FMul(mat, w.math)),
                                 FMul(v.science_cand, w.science))),
                       sum3)
            /\ FGt(w.english, AsF64(0)) =>
                  v.ret = FAdd(v.total, FDiv(FMul(diff, w.english), sum4))
            /\ r = w.english_required => v.ret = v.total

\* positive English weight, a student rank other than the reference rank
C9_Witness ==
    /\ out.op = "calc"
    /\ out.res.kind = "Ok"
    /\ FGt(out.arg.english, AsF64(0))
    /\ RankOf(scores, "English") = {2}
    /\ out.arg.english_required = 1
    /\ out.res.val.ret # out.res.val.total

SameScore(a, b) ==
    /\ a.kind = b.kind
    /\ a.kind = "Ok" => a.val.ret = b.val.ret
    /\ a.kind = "Panic" => a.val = b.val

\* C8: a record loaded from the file a complete record was saved to holds
\* the saved triples of Korean, Math, Chemistry and EarthScience and
\* (0, 0, rank) for English, and the calculation gives the same result on it
\* as on the saved record for every weight table.
C8_RoundTrip ==
    (out.op = "read_parquet" /\ out.res.kind = "Ok") =>
        /\ saved[name] # None
        /\ LET orig == CHOOSE r \in saved[name] : TRUE
           IN  /\ Complete(orig)
               /\ \A s \in Subject \ {"English"} :
                      HashMap_get(scores, s) = HashMap_get(orig, s)
               /\ HashMap_get(scores, "English") =
                      {Score(AsF64(0), AsF64(0), v.rank) : v \in HashMap_get(orig, "English")}
               /\ \A w \in WeightTables : SameScore(calc(scores, w), calc(orig, w))

\* a record saved with a non-zero English standard score has been loaded
C8_Witness ==
    /\ out.op = "read_parquet"
    /\ out.res.kind = "Ok"
    /\ \E r \in saved[name] : StdOf(r, "English") = {AsF64(90)}
    /\ StdOf(scores, "English") = {AsF64(0)}

====
